---- MODULE Spec2Model ----
(***************************************************************************)
(* interval_map<K,V> of src/interval_map.cpp, with K = int and V = char.   *)
(* m_map (a std::map<K,V>) is modelled as the sequence of its nodes in     *)
(* iteration order, i.e. strictly increasing in .first; an iterator is the *)
(* index of its node, and end() is Len(m) + 1.                             *)
(***************************************************************************)
EXTENDS Integers, Sequences, FiniteSets

\* Keys passed to assign and operator[] are 0..MaxKey.
MaxKey == 3
\* Number of distinct values of V in use.
NumValues == 3

ValueNames == <<"A", "B", "C", "D", "E">>
Keys == 0..MaxKey
Values == {ValueNames[i] : i \in 1..NumValues}

VARIABLES m_valBegin, m_map, pre_map, last
vars == <<m_valBegin, m_map, pre_map, last>>

Node(k, v) == [first |-> k, second |-> v]

\* The call most recently made on the object (history, not program state).
NoCall == [op |-> "new", keyBegin |-> 0, keyEnd |-> 0, val |-> "A", key |-> 0, result |-> "A"]
AssignCall(b, e, v) == [op |-> "assign", keyBegin |-> b, keyEnd |-> e, val |-> v, key |-> 0, result |-> "A"]
LookupCall(k, r) == [op |-> "lookup", keyBegin |-> 0, keyEnd |-> 0, val |-> "A", key |-> k, result |-> r]

\* ---- std::map primitives ------------------------------------------------

\* Iterator to the first node whose key is not less than k, or end().
lower_bound(m, k) ==
    LET S == {i \in 1..Len(m) : ~(m[i].first < k)}
    IN IF S = {} THEN Len(m) + 1 ELSE CHOOSE i \in S : \A j \in S : i <= j

upper_bound_lower(m, k) == lower_bound(m, k)

\* Iterator to the first node whose key is greater than k, or end().
upper_bound(m, k) ==
    LET S == {i \in 1..Len(m) : k < m[i].first}
    IN IF S = {} THEN Len(m) + 1 ELSE CHOOSE i \in S : \A j \in S : i <= j

\* m.erase(from, to): removes the nodes in [from, to).
erase(m, from, to) ==
    [i \in 1..(Len(m) - (to - from)) |-> IF i < from THEN m[i] ELSE m[i + (to - from)]]

\* m[k] = v: overwrites the node with key k, or inserts one in key order.
insert_or_assign(m, k, v) ==
    LET pos == lower_bound(m, k)
    IN IF pos <= Len(m) /\ m[pos].first = k
       THEN [m EXCEPT ![pos] = Node(k, v)]
       ELSE [i \in 1..(Len(m) + 1) |->
                IF i < pos THEN m[i] ELSE IF i = pos THEN Node(k, v) ELSE m[i - 1]]

\* ---- interval_map --------------------------------------------------------

RECURSIVE canonicalize(_, _)
\* The loop closing assign, started with it = begin().
canonicalize(m, it) ==
    IF it > Len(m) THEN m
    ELSE IF it + 1 <= Len(m) /\ m[it].second = m[it + 1].second
         THEN canonicalize(erase(m, it + 1, it + 2), it)
         ELSE canonicalize(m, it + 1)

assign_result_no_erase(m, keyBegin, keyEnd, val) ==
    IF keyBegin >= keyEnd THEN m
    ELSE
      LET itLow == lower_bound(m, keyBegin)
          itHigh == lower_bound(m, keyEnd)
          erased == erase(m, itLow, itHigh)
          withBegin == insert_or_assign(m, keyBegin, val)
          withEnd == IF itHigh /= Len(m) + 1 /\ m[itHigh].first > keyEnd
                     THEN insert_or_assign(withBegin, keyEnd, m[itHigh].second)
                     ELSE withBegin
      IN IF itLow /= 1 /\ m[itLow - 1].second = val
         THEN erased
         ELSE canonicalize(withEnd, 1)

assign_result_strict(m, keyBegin, keyEnd, val) ==
    IF keyBegin > keyEnd THEN m
    ELSE
      LET itLow == lower_bound(m, keyBegin)
          itHigh == lower_bound(m, keyEnd)
          erased == erase(m, itLow, itHigh)
          withBegin == insert_or_assign(erased, keyBegin, val)
          withEnd == IF itHigh /= Len(m) + 1 /\ m[itHigh].first > keyEnd
                     THEN insert_or_assign(withBegin, keyEnd, m[itHigh].second)
                     ELSE withBegin
      IN IF itLow /= 1 /\ m[itLow - 1].second = val
         THEN erased
         ELSE canonicalize(withEnd, 1)

\* The contents of m_map after assign(keyBegin, keyEnd, val) on contents m.
\* itHigh is never erased and its node is never overwritten (its key is
\* >= keyEnd > keyBegin), so itHigh->first and itHigh->second are read from m.
assign_result(m, keyBegin, keyEnd, val) ==
    IF keyBegin >= keyEnd THEN m
    ELSE
      LET itLow == lower_bound(m, keyBegin)
          itHigh == lower_bound(m, keyEnd)
          erased == erase(m, itLow, itHigh)
          withBegin == insert_or_assign(erased, keyBegin, val)
          withEnd == IF itHigh /= Len(m) + 1 /\ m[itHigh].first > keyEnd
                     THEN insert_or_assign(withBegin, keyEnd, m[itHigh].second)
                     ELSE withBegin
      IN IF itLow /= 1 /\ m[itLow - 1].second = val
         THEN erased
         ELSE canonicalize(withEnd, 1)

\* operator[] on contents m with default value valBegin.
subscript(m, valBegin, key) ==
    LET it == upper_bound(m, key)
    IN IF it = 1 THEN valBegin ELSE m[it - 1].second

\* ---- the object's life ---------------------------------------------------

Init ==
    /\ m_valBegin \in Values
    /\ m_map = <<>>
    /\ pre_map = <<>>
    /\ last = NoCall

assign(keyBegin, keyEnd, val) ==
    /\ m_map' = assign_result(m_map, keyBegin, keyEnd, val)
    /\ pre_map' = m_map
    /\ last' = AssignCall(keyBegin, keyEnd, val)
    /\ UNCHANGED m_valBegin

lookup(key) ==
    /\ last' = LookupCall(key, subscript(m_map, m_valBegin, key))
    /\ pre_map' = m_map
    /\ UNCHANGED <<m_valBegin, m_map>>

Next ==
    \/ \E keyBegin \in Keys, keyEnd \in Keys, val \in Values : assign(keyBegin, keyEnd, val)
    \/ \E key \in Keys : lookup(key)

Spec == Init /\ [][Next]_vars

\* ---- vocabulary of the properties ----------------------------------------

TypeOK ==
    /\ m_valBegin \in Values
    /\ m_map \in Seq([first : Keys, second : Values])
    /\ \A i \in 1..(Len(m_map) - 1) : m_map[i].first < m_map[i + 1].first

KeysOf(m) == {m[i].first : i \in 1..Len(m)}
ValueAt(m, k) == (CHOOSE i \in 1..Len(m) : m[i].first = k)

\* The value of the breakpoint with the greatest key <= key, else the default.
StepValue(m, valBegin, key) ==
    LET below == {i \in 1..Len(m) : m[i].first <= key}
    IN IF below = {} THEN valBegin
       ELSE m[CHOOSE i \in below : \A j \in below : m[j].first <= m[i].first].second

ProperAssign == last.op = "assign" /\ last.keyBegin < last.keyEnd

InRange(k) == last.keyBegin <= k /\ k < last.keyEnd

\* ---- properties ----------------------------------------------------------

\* C1: after assign(keyBegin, keyEnd, v) with keyBegin < keyEnd, operator[]
\* returns for every key outside [keyBegin, keyEnd) what it returned before
\* the call.
C1_OutsideUnaffected ==
    ProperAssign =>
        \A k \in Keys : ~InRange(k) =>
            subscript(m_map, m_valBegin, k) = subscript(pre_map, m_valBegin, k)

\* C2: after assign(keyBegin, keyEnd, v) with keyBegin < keyEnd, operator[]
\* returns v for every key in [keyBegin, keyEnd).
C2_InsideAssigned ==
    ProperAssign =>
        \A k \in Keys : InRange(k) => subscript(m_map, m_valBegin, k) = last.val

\* A proper assign over a range in which some key held another value, made
\* on a map that already had breakpoints inside the range.
C2_Witness ==
    /\ ProperAssign
    /\ \E k \in Keys : InRange(k) /\ subscript(pre_map, m_valBegin, k) /= last.val
    /\ \E k \in KeysOf(pre_map) : InRange(k)
    /\ \A k \in Keys : InRange(k) => subscript(m_map, m_valBegin, k) = last.val

\* C3: no two breakpoints of m_map adjacent in key order carry equal values.
C3_NoAdjacentEqual ==
    \A i \in 1..(Len(m_map) - 1) : m_map[i].second /= m_map[i + 1].second

\* C4: the first breakpoint of m_map, if any, carries a value different from
\* m_valBegin.
C4_FirstDiffersFromDefault ==
    Len(m_map) > 0 => m_map[1].second /= m_valBegin

\* C5: an assign(b, e, v) made right after an assign(b, e, v) with the same
\* arguments leaves m_map as the first call left it.
C5_Idempotent ==
    [][(last.op = "assign" /\ last'.op = "assign"
        /\ last'.keyBegin = last.keyBegin /\ last'.keyEnd = last.keyEnd
        /\ last'.val = last.val) => m_map' = m_map]_vars

\* C6: assign(keyBegin, keyEnd, v) with keyBegin >= keyEnd changes neither
\* the breakpoints nor the default value nor the result of operator[] at any
\* key.
C6_EmptyIntervalNoOp ==
    [][(last'.op = "assign" /\ last'.keyBegin >= last'.keyEnd) =>
          /\ m_map' = m_map
          /\ m_valBegin' = m_valBegin
          /\ \A k \in Keys :
                subscript(m_map', m_valBegin', k) = subscript(m_map, m_valBegin, k)]_vars

\* An assign with keyBegin >= keyEnd has just been made on a map that holds
\* breakpoints.
C6_Witness ==
    /\ last.op = "assign"
    /\ last.keyBegin >= last.keyEnd
    /\ Len(pre_map) > 0
    /\ m_map = pre_map

\* C7: with b2 <= b1 < e1 <= e2, assign(b1, e1, v1) followed by
\* assign(b2, e2, v2) gives at every key the result of operator[] that
\* assign(b2, e2, v2) alone gives from the same starting map.
C7_OverwriteComposition ==
    [][(/\ last.op = "assign" /\ last'.op = "assign"
        /\ last'.keyBegin <= last.keyBegin
        /\ last.keyBegin < last.keyEnd
        /\ last.keyEnd <= last'.keyEnd) =>
          \A k \in Keys :
              subscript(m_map', m_valBegin, k) =
              subscript(assign_result(pre_map, last'.keyBegin, last'.keyEnd, last'.val),
                        m_valBegin, k)]_vars

\* C8: operator[] returns the value of the breakpoint with the greatest key
\* <= key, or m_valBegin when there is none, and always returns a value.
C8_LookupGreatestBelow ==
    last.op = "lookup" =>
        /\ last.result = StepValue(m_map, m_valBegin, last.key)
        /\ last.result \in Values

\* A lookup answered from a breakpoint that is neither the first nor the
\* last one stored.
C8_Witness ==
    /\ last.op = "lookup"
    /\ \E i \in 2..(Len(m_map) - 1) :
          /\ m_map[i].first <= last.key
          /\ last.key < m_map[i + 1].first
          /\ last.result = m_map[i].second
          /\ last.result /= m_valBegin

\* C9: with V0 the result of operator[] at keyEnd before a proper assign,
\* a breakpoint with key keyEnd is stored afterwards iff V0 /= v, and it
\* carries V0.
C9_RightBoundary ==
    ProperAssign =>
        LET V0 == subscript(pre_map, m_valBegin, last.keyEnd)
        IN /\ (last.keyEnd \in KeysOf(m_map)) <=> (V0 /= last.val)
           /\ (last.keyEnd \in KeysOf(m_map)) =>
                  m_map[ValueAt(m_map, last.keyEnd)].second = V0

\* C10: a proper assign of v over a range where operator[] already returned
\* v at every key leaves the breakpoint sequence unchanged.
C10_RedundantAssignUnchanged ==
    (/\ ProperAssign
     /\ \A k \in Keys : InRange(k) => subscript(pre_map, m_valBegin, k) = last.val)
        => m_map = pre_map

====
